---- MODULE Spec2Model ----
(***************************************************************************)
(* Session admission control and host-directed room state of the kalba     *)
(* backend: join_workshop, get_workshop_rules, host_action                 *)
(* (app/api/v1/video.py) and create_workshop, update_workshop,             *)
(* delete_workshop (app/api/v1/workshops.py) running as independent        *)
(* requests against the shared tables workshop, workshop_participant and   *)
(* workshop_rules and against the Daily.co gateway.                        *)
(*                                                                         *)
(* Every database statement and every gateway call is one step; the code   *)
(* between two awaits runs with the step before it.  Time is counted in    *)
(* minutes.  An Optional value is a set of at most one element; a missing  *)
(* string is None, a missing row id is 0.  A slot keeps the response of    *)
(* its last request until the next one is answered.                        *)
(***************************************************************************)
EXTENDS Integers, FiniteSets, Sequences, TLC

VARIABLES
    clock,          \* datetime.now(UTC), in minutes
    workshops,      \* table workshop
    participants,   \* table workshop_participant
    rules,          \* table workshop_rules
    rooms,          \* room names that exist at the gateway
    messages,       \* app-messages the gateway accepted, in order
    pc,             \* per request slot: the await the handler is suspended at
    loc,            \* per request slot: the handler's local variables
    resp            \* per request slot: the response of the finished request

vars == <<clock, workshops, participants, rules, rooms, messages, pc, loc, resp>>

------------------------------------------------------------------------------
(* Bounds of the model *)

NumConc == 2
MaxCap == 2
MaxClock == 3
MaxMsgs == 2

(* Program constants *)

EarlyJoinMinutes == 5
LateJoinGraceMinutes == 10
TokenExpMinutes == 10

------------------------------------------------------------------------------
(* Values *)

None == "None"

\* the trainer and enough other users to overfill any workshop
Users == 1 .. (MaxCap + 2)
ConcProcs == 1 .. NumConc
\* one request slot per user, and one per concurrent request
Procs == Users \cup ConcProcs
\* the trainer and one other user per concurrent request
ConcUsers == 1 .. (NumConc + 1)
TheWorkshop == 1
TheTrainer == 1
WorkshopIds == {TheWorkshop, TheWorkshop + 1}

HOST == "host"
PARTICIPANT == "participant"

MUTE_ALL == "mute_all"
UNMUTE_ALL == "unmute_all"
CAMERAS_OFF_ALL == "cameras_off_all"
CAMERAS_ON_ALL == "cameras_on_all"
HostActionType == {MUTE_ALL, UNMUTE_ALL, CAMERAS_OFF_ALL, CAMERAS_ON_ALL}

LateJoinBehavior == {"allow", "allow_muted", "deny"}

\* start times that put the clock before, inside and after the admission window
StartTimes == {0 - LateJoinGraceMinutes, 0, EarlyJoinMinutes + 2}
Durations == {1, 2}

\* WorkshopRules(workshop_id=w): the column defaults
DefaultRules(i, w) ==
    [id |-> i, workshop_id |-> w,
     force_camera_on |-> TRUE, force_mic_muted_on_join |-> TRUE,
     allow_unmute_after |-> 0, allow_camera_toggle |-> TRUE,
     late_join_behavior |-> "allow_muted",
     all_muted |-> FALSE, all_cameras_off |-> FALSE]

\* RulesRead
RulesRead(fc, fm, au, ct, am, ac) ==
    [force_camera_on |-> fc, force_mic_muted_on_join |-> fm,
     allow_unmute_after |-> au, allow_camera_toggle |-> ct,
     all_muted |-> am, all_cameras_off |-> ac]

NoRules == RulesRead(FALSE, FALSE, 0 - 1, FALSE, FALSE, FALSE)

\* the properties of a meeting token requested from the gateway
NoToken ==
    [room_name |-> None, user_id |-> 0, is_owner |-> FALSE, exp_minutes |-> 0,
     start_video_off |-> FALSE, start_audio_off |-> FALSE]

\* a response, with the request it answers (op, user_id, workshop_id) and the
\* gateway calls the request made, each with the gateway's answer
NoResp ==
    [op |-> "", user_id |-> 0, workshop_id |-> 0,
     status |-> 0, detail |-> "", role |-> "", token |-> NoToken,
     rules |-> NoRules, action |-> "", broadcast_sent |-> FALSE,
     calls |-> <<>>]

Response(op, u, w) == [NoResp EXCEPT !.op = op, !.user_id = u, !.workshop_id = w]

HTTPException(r, code, text) == [r EXCEPT !.status = code, !.detail = text]

NoLoc ==
    [op |-> "", user_id |-> 0, workshop_id |-> 0, ws |-> {}, now |-> 0,
     is_host |-> FALSE, role |-> "", existing |-> 0, room_name |-> None,
     rules |-> NoRules, rules_row |-> {}, rules_obj |-> {},
     action |-> "", obj |-> {}, calls |-> <<>>,
     del_participants |-> {}, del_rules |-> {}]

------------------------------------------------------------------------------
(* Storage and gateway helpers *)

\* session.get(Workshop, workshop_id)
WorkshopGet(w) == {x \in workshops : x.id = w}

\* the row ids that the running requests hold in their sessions
HeldIds ==
    UNION {{loc[p].existing} \cup {r.id : r \in loc[p].rules_row}
               \cup loc[p].del_participants \cup loc[p].del_rules : p \in Procs}

\* a primary key that no row of the table has and no session holds (uuid4)
FreshId(table) ==
    CHOOSE i \in 1 .. (Cardinality(table) + Cardinality(HeldIds) + 1) :
        /\ \A r \in table : r.id # i
        /\ i \notin HeldIds

\* the workshop ids that rows or running requests refer to
HeldWorkshopIds ==
    {x.id : x \in workshops}
        \cup {r.workshop_id : r \in participants \cup rules}
        \cup {loc[p].workshop_id : p \in Procs}

\* the primary key of a new workshop (uuid4)
FreshWorkshopId ==
    CHOOSE i \in 1 .. (Cardinality(HeldWorkshopIds) + 1) : i \notin HeldWorkshopIds

\* a room name that depends on when the joiner asks
RoomNameTimestamped(w) == "kalba-" \o ToString(w) \o "-" \o ToString(clock)

\* f"kalba-{workshop.id}"
RoomName(w) == "kalba-" \o ToString(w)

\* a count without the role filter: the host's row is counted too
ParticipantCountAllRoles(w) ==
    Cardinality({r \in participants : r.workshop_id = w})

\* select(func.count()) ... where workshop_id == w, role == PARTICIPANT
ParticipantCount(w) ==
    Cardinality({r \in participants :
                    r.workshop_id = w /\ r.role = PARTICIPANT})

\* the time window of join_workshop
EarliestJoin(wk) == wk.start_time - EarlyJoinMinutes

\* a window that closes when the workshop ends, without the late-join grace
LatestJoinNoGrace(wk) == wk.start_time + wk.duration_minutes

LatestJoin(wk) == wk.start_time + (wk.duration_minutes + LateJoinGraceMinutes)

TooEarly(now, wk) == now < EarliestJoin(wk)

\* a handler without the late bound
TooLateNever(now, wk) == FALSE

TooLate(now, wk) == now > LatestJoin(wk)

\* a capacity test that turns nobody away
IsFullNever(count, max_participants) == FALSE

\* a capacity test that admits one participant too many
IsFullOffByOne(count, max_participants) == count > max_participants

\* the capacity test of join_workshop
IsFull(count, max_participants) == count >= max_participants

\* the response under construction for the request of slot p
Me(p) ==
    [Response(loc[p].op, loc[p].user_id, loc[p].workshop_id) EXCEPT
        !.calls = loc[p].calls]

\* the gateway calls of slot p's request, after one more call and its answer
Called(p, call, answer) == Append(loc[p].calls, <<call, answer>>)

\* the request is over: its locals are dropped, its response is kept
Finish(p, r) ==
    /\ pc' = [pc EXCEPT ![p] = "done"]
    /\ loc' = [loc EXCEPT ![p] = NoLoc]
    /\ resp' = [resp EXCEPT ![p] = r]

Goto(p, label, l) ==
    /\ pc' = [pc EXCEPT ![p] = label]
    /\ loc' = [loc EXCEPT ![p] = l]
    /\ UNCHANGED resp

------------------------------------------------------------------------------
(* join_workshop *)

\* steps 1-3: load the workshop, check the time window, determine the role
JoinStart(p, u, w) ==
    /\ pc[p] = "idle"
    /\ UNCHANGED <<clock, workshops, participants, rules, rooms, messages>>
    /\ IF WorkshopGet(w) = {}
       THEN Finish(p, HTTPException(Response("join", u, w), 404, "Workshop not found"))
       ELSE LET wk == CHOOSE x \in WorkshopGet(w) : TRUE
                now == clock
            IN  IF TooEarly(now, wk)
                THEN Finish(p, HTTPException(Response("join", u, w), 403,
                                             "Workshop has not started yet"))
                ELSE IF TooLate(now, wk)
                THEN Finish(p, HTTPException(Response("join", u, w), 403,
                                             "Workshop has ended"))
                ELSE LET is_host == (u = wk.trainer_id)
                     IN  Goto(p, IF is_host THEN "select" ELSE "count",
                              [NoLoc EXCEPT !.op = "join", !.user_id = u,
                                   !.workshop_id = w, !.ws = {wk}, !.now = now,
                                   !.is_host = is_host,
                                   !.role = IF is_host THEN HOST ELSE PARTICIPANT])

\* step 4: capacity check (skipped for the host)
JoinCount(p) ==
    /\ pc[p] = "count"
    /\ UNCHANGED <<clock, workshops, participants, rules, rooms, messages>>
    /\ LET wk == CHOOSE x \in loc[p].ws : TRUE
           count == ParticipantCount(loc[p].workshop_id)
       IN  IF IsFull(count, wk.max_participants)
           THEN Finish(p, HTTPException(Me(p), 403, "Workshop is full"))
           ELSE Goto(p, "select", loc[p])

\* step 5, the select: the caller's existing membership row, if any
JoinSelect(p) ==
    /\ pc[p] = "select"
    /\ UNCHANGED <<clock, workshops, participants, rules, rooms, messages>>
    /\ LET found == {r \in participants :
                        /\ r.user_id = loc[p].user_id
                        /\ r.workshop_id = loc[p].workshop_id}
       IN  IF found = {}
           THEN Goto(p, "upsert", [loc[p] EXCEPT !.existing = 0])
           ELSE \E r \in found :
                    Goto(p, "upsert", [loc[p] EXCEPT !.existing = r.id])

\* an INSERT that is not committed before the gateway is called
InsertParticipantNotCommitted(row) == participants

\* the INSERT of a membership row
InsertParticipant(row) == participants \cup {row}

\* a re-join that leaves the existing row as it is
TouchParticipantNoUpdate(id, now) == participants

\* the UPDATE of the existing membership row: existing.joined_at = now
TouchParticipant(id, now) ==
    {IF r.id = id THEN [r EXCEPT !.joined_at = now] ELSE r : r \in participants}

\* step 5, the commit: insert a new row, or update joined_at of the existing
JoinUpsert(p) ==
    /\ pc[p] = "upsert"
    /\ UNCHANGED <<clock, workshops, rules, rooms, messages>>
    /\ IF loc[p].existing = 0
       THEN /\ participants' =
                   InsertParticipant(
                       [id |-> FreshId(participants),
                        user_id |-> loc[p].user_id,
                        workshop_id |-> loc[p].workshop_id,
                        role |-> loc[p].role,
                        joined_at |-> loc[p].now])
            /\ Goto(p, "room", loc[p])
       ELSE /\ participants' = TouchParticipant(loc[p].existing, loc[p].now)
            /\ Goto(p, "room", loc[p])

\* a handler that takes every answer but success as a failure
CreateRoomAbortsOnConflict(detail) == detail # "ok"

\* does the gateway's answer to create_room end the join?  Not when the call
\* succeeded, and not when the error says that the room already exists
CreateRoomAborts(detail) == detail # "ok" /\ detail # "already exists"

\* step 6, the gateway call: daily.create_room; gw_fails is the gateway's
\* choice to fail for another reason than the room's existence
JoinCreateRoom(p, gw_fails) ==
    /\ pc[p] = "room"
    /\ UNCHANGED <<clock, workshops, participants, rules, messages>>
    /\ LET wk == CHOOSE x \in loc[p].ws : TRUE
           room_name == IF wk.video_room_id # None
                        THEN wk.video_room_id
                        ELSE RoomName(wk.id)
           detail == IF gw_fails THEN "unavailable"
                     ELSE IF room_name \in rooms THEN "already exists"
                     ELSE "ok"
           calls == Called(p, "create_room", detail)
       IN  IF CreateRoomAborts(detail)
           THEN /\ rooms' = rooms
                /\ Finish(p, HTTPException([Me(p) EXCEPT !.calls = calls],
                                           502, "Video service unavailable"))
           ELSE /\ rooms' = rooms \cup {room_name}
                /\ Goto(p, IF wk.video_room_id = None THEN "persist" ELSE "rules",
                        [loc[p] EXCEPT !.room_name = room_name, !.calls = calls])

\* step 6, the commit: persist video_room_id and refresh the workshop
JoinPersist(p) ==
    /\ pc[p] = "persist"
    /\ UNCHANGED <<clock, participants, rules, rooms, messages>>
    /\ workshops' =
           {IF x.id = loc[p].workshop_id
            THEN [x EXCEPT !.video_room_id = loc[p].room_name]
            ELSE x : x \in workshops}
    /\ Goto(p, "rules",
            [loc[p] EXCEPT !.ws = {x \in workshops' : x.id = loc[p].workshop_id}])

\* a start_video_off that ignores the live all_cameras_off flag
StartVideoOffStaticOnly(force_camera_on, all_cameras_off) == ~force_camera_on

\* start_video_off and start_audio_off of the token
StartVideoOff(force_camera_on, all_cameras_off) ==
    (~force_camera_on) \/ all_cameras_off

StartAudioOff(force_mic_muted, all_muted) == force_mic_muted \/ all_muted

\* rules whose mute-on-join only holds while allow_unmute_after is zero
RulesOfTimedUnmute(rows) ==
    IF rows = {}
    THEN RulesRead(TRUE, TRUE, 0, TRUE, FALSE, FALSE)
    ELSE LET r == CHOOSE x \in rows : TRUE
         IN  RulesRead(r.force_camera_on,
                       r.force_mic_muted_on_join /\ r.allow_unmute_after = 0,
                       r.allow_unmute_after, r.allow_camera_toggle,
                       r.all_muted, r.all_cameras_off)

\* the rules a handler reports for the rows its select returned
RulesOf(rows) ==
    IF rows = {}
    THEN RulesRead(TRUE, TRUE, 0, TRUE, FALSE, FALSE)
    ELSE LET r == CHOOSE x \in rows : TRUE
         IN  RulesRead(r.force_camera_on, r.force_mic_muted_on_join,
                       r.allow_unmute_after, r.allow_camera_toggle,
                       r.all_muted, r.all_cameras_off)

\* step 7: load the rules, defaults if none are stored
JoinRules(p) ==
    /\ pc[p] = "rules"
    /\ UNCHANGED <<clock, workshops, participants, rules, rooms, messages>>
    /\ LET found == {r \in rules : r.workshop_id = loc[p].workshop_id}
       IN  IF found = {}
           THEN Goto(p, "token", [loc[p] EXCEPT !.rules = RulesOf({})])
           ELSE \E r \in found :
                    Goto(p, "token", [loc[p] EXCEPT !.rules = RulesOf({r})])

\* step 9: daily.create_meeting_token, then the response
JoinToken(p, gw_fails) ==
    /\ pc[p] = "token"
    /\ UNCHANGED <<clock, workshops, participants, rules, rooms, messages>>
    /\ LET wk == CHOOSE x \in loc[p].ws : TRUE
           rl == loc[p].rules
           token == [room_name |-> wk.video_room_id,
                     user_id |-> loc[p].user_id,
                     is_owner |-> loc[p].is_host,
                     exp_minutes |-> TokenExpMinutes,
                     start_video_off |->
                         StartVideoOff(rl.force_camera_on, rl.all_cameras_off),
                     start_audio_off |->
                         StartAudioOff(rl.force_mic_muted_on_join, rl.all_muted)]
           calls == Called(p, "create_meeting_token",
                           IF gw_fails THEN "unavailable" ELSE "ok")
       IN  IF gw_fails
           THEN Finish(p, HTTPException([Me(p) EXCEPT !.calls = calls],
                                        502, "Video service unavailable"))
           ELSE Finish(p, [Me(p) EXCEPT !.status = 200, !.role = loc[p].role,
                                         !.token = token, !.rules = rl,
                                         !.calls = calls])

JoinStep(p, gw_fails) ==
    \/ JoinCount(p)
    \/ JoinSelect(p)
    \/ JoinUpsert(p)
    \/ JoinCreateRoom(p, gw_fails)
    \/ JoinPersist(p)
    \/ JoinRules(p)
    \/ JoinToken(p, gw_fails)


------------------------------------------------------------------------------
(* host_action *)

\* a chain whose mute action flips the flag instead of setting it
ApplyActionToggle(r, action) ==
    IF action = MUTE_ALL THEN [r EXCEPT !.all_muted = ~r.all_muted]
    ELSE IF action = UNMUTE_ALL THEN [r EXCEPT !.all_muted = FALSE]
    ELSE IF action = CAMERAS_OFF_ALL THEN [r EXCEPT !.all_cameras_off = TRUE]
    ELSE IF action = CAMERAS_ON_ALL THEN [r EXCEPT !.all_cameras_off = FALSE]
    ELSE r

\* the if/elif chain that updates the live state
ApplyAction(r, action) ==
    IF action = MUTE_ALL THEN [r EXCEPT !.all_muted = TRUE]
    ELSE IF action = UNMUTE_ALL THEN [r EXCEPT !.all_muted = FALSE]
    ELSE IF action = CAMERAS_OFF_ALL THEN [r EXCEPT !.all_cameras_off = TRUE]
    ELSE IF action = CAMERAS_ON_ALL THEN [r EXCEPT !.all_cameras_off = FALSE]
    ELSE r

\* a handler without the authorization check
MayHostActAnyone(u, wk) == TRUE

\* who may perform a host action
MayHostAct(u, wk) == ~(u # wk.trainer_id)

\* load the workshop and authorize the caller
HostStart(p, u, w, action) ==
    /\ pc[p] = "idle"
    /\ Len(messages) < MaxMsgs
    /\ UNCHANGED <<clock, workshops, participants, rules, rooms, messages>>
    /\ LET me == [Response("host_action", u, w) EXCEPT !.action = action]
       IN  IF WorkshopGet(w) = {}
           THEN Finish(p, HTTPException(me, 404, "Workshop not found"))
           ELSE LET wk == CHOOSE x \in WorkshopGet(w) : TRUE
                IN  IF ~MayHostAct(u, wk)
                    THEN Finish(p, HTTPException(me, 403,
                                     "Only the host can perform this action"))
                    ELSE Goto(p, "hselect",
                              [NoLoc EXCEPT !.op = "host_action", !.user_id = u,
                                   !.workshop_id = w, !.ws = {wk},
                                   !.action = action])

\* load or create the rules, update the live state on the loaded object
HostSelect(p) ==
    /\ pc[p] = "hselect"
    /\ UNCHANGED <<clock, workshops, participants, rules, rooms, messages>>
    /\ LET found == {r \in rules : r.workshop_id = loc[p].workshop_id}
       IN  IF found = {}
           THEN Goto(p, "hcommit",
                     [loc[p] EXCEPT
                         !.rules_row = {},
                         !.rules_obj = {ApplyAction(
                             DefaultRules(0, loc[p].workshop_id),
                             loc[p].action)}])
           ELSE \E r \in found :
                    Goto(p, "hcommit",
                         [loc[p] EXCEPT
                             !.rules_row = {r},
                             !.rules_obj = {ApplyAction(r, loc[p].action)}])

\* a table without the unique constraint
RulesInsertUnconstrained(w) == TRUE

\* workshop_rules.workshop_id is unique: may a row for workshop w be inserted?
RulesInsertAllowed(w) == \A r \in rules : r.workshop_id # w

\* the UPDATE the unit of work emits for a loaded row: the columns whose value
\* on the object differs from the loaded one, written to the row of that id
RulesUpdate(loaded, obj) ==
    {IF r.id = loaded.id
     THEN [r EXCEPT
              !.all_muted =
                  IF obj.all_muted # loaded.all_muted
                  THEN obj.all_muted ELSE @,
              !.all_cameras_off =
                  IF obj.all_cameras_off # loaded.all_cameras_off
                  THEN obj.all_cameras_off ELSE @]
     ELSE r : r \in rules}

\* a response that reports the broadcast as sent whatever the gateway said
AcceptedAlwaysSent(p, sent) ==
    [Me(p) EXCEPT !.status = 200, !.detail = "accepted",
                  !.action = loc[p].action, !.broadcast_sent = TRUE]

\* the response of an authorized host action
Accepted(p, sent) ==
    [Me(p) EXCEPT !.status = 200, !.detail = "accepted",
                  !.action = loc[p].action, !.broadcast_sent = sent]

\* session.commit() of the rules row; without a room there is no broadcast
HostCommit(p) ==
    /\ pc[p] = "hcommit"
    /\ UNCHANGED <<clock, workshops, participants, rooms, messages>>
    /\ LET wk == CHOOSE x \in loc[p].ws : TRUE
           obj == CHOOSE x \in loc[p].rules_obj : TRUE
           after == IF wk.video_room_id # None
                    THEN Goto(p, "hbroadcast", loc[p])
                    ELSE Finish(p, Accepted(p, FALSE))
           failed == /\ rules' = rules
                     /\ Finish(p, HTTPException(Me(p), 500, "Internal Server Error"))
       IN  IF loc[p].rules_row = {}
           THEN IF RulesInsertAllowed(obj.workshop_id)
                       /\ WorkshopGet(obj.workshop_id) # {}
                THEN /\ rules' = rules \cup {[obj EXCEPT !.id = FreshId(rules)]}
                     /\ after
                ELSE failed
           ELSE LET loaded == CHOOSE x \in loc[p].rules_row : TRUE
                IN  IF loaded # obj /\ \A r \in rules : r.id # loaded.id
                    THEN failed
                    ELSE /\ rules' = RulesUpdate(loaded, obj)
                         /\ after

\* daily.send_app_message; a failure is logged and reported as broadcast_sent
HostBroadcast(p, gw_fails) ==
    /\ pc[p] = "hbroadcast"
    /\ UNCHANGED <<clock, workshops, participants, rules, rooms>>
    /\ LET wk == CHOOSE x \in loc[p].ws : TRUE
       IN  IF gw_fails
           THEN /\ messages' = messages
                /\ Finish(p, Accepted(p, FALSE))
           ELSE /\ messages' = Append(messages, <<wk.video_room_id, loc[p].action>>)
                /\ Finish(p, Accepted(p, TRUE))

HostStep(p, gw_fails) ==
    \/ HostSelect(p)
    \/ HostCommit(p)
    \/ HostBroadcast(p, gw_fails)

------------------------------------------------------------------------------
(* get_workshop_rules *)

\* a view that reports the live flags as unset whatever is stored
GetRulesOfStaticOnly(rows) ==
    IF rows = {}
    THEN RulesRead(TRUE, TRUE, 0, TRUE, FALSE, FALSE)
    ELSE LET r == CHOOSE x \in rows : TRUE
         IN  RulesRead(r.force_camera_on, r.force_mic_muted_on_join,
                       r.allow_unmute_after, r.allow_camera_toggle,
                       FALSE, FALSE)

\* the RulesRead that get_workshop_rules builds from the row its select returned
GetRulesOf(rows) ==
    LET rules_row == rows
        has == rules_row # {}
        row == CHOOSE x \in rules_row \cup {NoRules} : has => x \in rules_row
    IN  RulesRead(IF has THEN row.force_camera_on ELSE TRUE,
                  IF has THEN row.force_mic_muted_on_join ELSE TRUE,
                  IF has THEN row.allow_unmute_after ELSE 0,
                  IF has THEN row.allow_camera_toggle ELSE TRUE,
                  IF has THEN row.all_muted ELSE FALSE,
                  IF has THEN row.all_cameras_off ELSE FALSE)

\* load the workshop
GetStart(p, u, w) ==
    /\ pc[p] = "idle"
    /\ UNCHANGED <<clock, workshops, participants, rules, rooms, messages>>
    /\ IF WorkshopGet(w) = {}
       THEN Finish(p, HTTPException(Response("get_rules", u, w), 404,
                                    "Workshop not found"))
       ELSE Goto(p, "gselect",
                 [NoLoc EXCEPT !.op = "get_rules", !.user_id = u,
                               !.workshop_id = w])

\* select the rules row and answer
GetSelect(p) ==
    /\ pc[p] = "gselect"
    /\ UNCHANGED <<clock, workshops, participants, rules, rooms, messages>>
    /\ LET found == {r \in rules : r.workshop_id = loc[p].workshop_id}
       IN  IF found = {}
           THEN Finish(p, [Me(p) EXCEPT !.status = 200, !.rules = GetRulesOf({})])
           ELSE \E r \in found :
                    Finish(p, [Me(p) EXCEPT !.status = 200,
                                            !.rules = GetRulesOf({r})])

------------------------------------------------------------------------------
(* update_workshop *)

\* a request model that lets the caller name the trainer
WorkshopUpdateFieldsWithTrainer ==
    {"start_time", "duration_minutes", "max_participants", "trainer_id"}

\* the fields of WorkshopUpdate (of those the model keeps)
WorkshopUpdateFields == {"start_time", "duration_minutes", "max_participants"}

\* body.model_dump(exclude_unset=True): the declared fields the request set
ModelDump(body) == {fv \in body : fv[1] \in WorkshopUpdateFields}

\* for field, value in update_data.items(): setattr(workshop, field, value)
SetAttrs(wk, body) ==
    [f \in DOMAIN wk |->
        IF \E fv \in body : fv[1] = f
        THEN (CHOOSE fv \in body : fv[1] = f)[2]
        ELSE wk[f]]

\* load the workshop, authorize the caller, set the fields of the body
UpdateStart(p, u, w, body) ==
    /\ pc[p] = "idle"
    /\ UNCHANGED <<clock, workshops, participants, rules, rooms, messages>>
    /\ LET me == Response("update_workshop", u, w)
       IN  IF WorkshopGet(w) = {}
           THEN Finish(p, HTTPException(me, 404, "Workshop not found"))
           ELSE LET wk == CHOOSE x \in WorkshopGet(w) : TRUE
                IN  IF wk.trainer_id # u
                    THEN Finish(p, HTTPException(me, 403,
                             "Only the workshop creator can edit this workshop"))
                    ELSE Goto(p, "ucommit",
                              [NoLoc EXCEPT !.op = "update_workshop",
                                   !.user_id = u, !.workshop_id = w,
                                   !.ws = {wk},
                                   !.obj = {SetAttrs(wk, ModelDump(body))}])

\* session.commit(): the changed columns are written to the workshop's row
UpdateCommit(p) ==
    /\ pc[p] = "ucommit"
    /\ UNCHANGED <<clock, participants, rules, rooms, messages>>
    /\ LET wk == CHOOSE x \in loc[p].ws : TRUE
           obj == CHOOSE x \in loc[p].obj : TRUE
       IN  /\ workshops' =
                  {IF x.id = wk.id
                   THEN [f \in DOMAIN x |-> IF obj[f] # wk[f] THEN obj[f] ELSE x[f]]
                   ELSE x : x \in workshops}
           /\ Finish(p, [Me(p) EXCEPT !.status = 200])

------------------------------------------------------------------------------
(* create_workshop *)

TRAINER == "trainer"
USER == "user"

\* user.role of the stored users: only the trainer may create workshops
UserRole(u) == IF u = TheTrainer THEN TRAINER ELSE USER

\* load the user, check the role, build the workshop object
CreateStart(p, u, n) ==
    /\ pc[p] = "idle"
    /\ UNCHANGED <<clock, workshops, participants, rules, rooms, messages>>
    /\ LET me == Response("create_workshop", u, 0)
       IN  IF UserRole(u) # TRAINER
           THEN Finish(p, HTTPException(me, 403, "Only trainers can create workshops"))
           ELSE LET wk == [id |-> FreshWorkshopId, trainer_id |-> u,
                           start_time |-> 0, duration_minutes |-> 1,
                           max_participants |-> n, video_room_id |-> None]
                IN  Goto(p, "cflush",
                         [NoLoc EXCEPT !.op = "create_workshop", !.user_id = u,
                                       !.workshop_id = wk.id, !.ws = {wk}])

\* session.flush(): the workshop's INSERT, not yet visible to other sessions
CreateFlush(p) ==
    /\ pc[p] = "cflush"
    /\ UNCHANGED <<clock, workshops, participants, rules, rooms, messages>>
    /\ Goto(p, "ccommit", loc[p])

\* session.commit(): the workshop and its default rules become visible
CreateCommit(p) ==
    /\ pc[p] = "ccommit"
    /\ UNCHANGED <<clock, participants, rooms, messages>>
    /\ LET wk == CHOOSE x \in loc[p].ws : TRUE
       IN  /\ workshops' = workshops \cup {wk}
           /\ rules' = rules \cup {DefaultRules(FreshId(rules), wk.id)}
           /\ Finish(p, [Me(p) EXCEPT !.status = 201])

------------------------------------------------------------------------------
(* delete_workshop *)

\* load the workshop and authorize the caller
DeleteStart(p, u, w) ==
    /\ pc[p] = "idle"
    /\ UNCHANGED <<clock, workshops, participants, rules, rooms, messages>>
    /\ LET me == Response("delete_workshop", u, w)
       IN  IF WorkshopGet(w) = {}
           THEN Finish(p, HTTPException(me, 404, "Workshop not found"))
           ELSE LET wk == CHOOSE x \in WorkshopGet(w) : TRUE
                IN  IF wk.trainer_id # u
                    THEN Finish(p, HTTPException(me, 403,
                             "Only the workshop creator can delete this workshop"))
                    ELSE Goto(p, IF wk.video_room_id # None
                                 THEN "droom" ELSE "dparticipants",
                              [NoLoc EXCEPT !.op = "delete_workshop",
                                   !.user_id = u, !.workshop_id = w, !.ws = {wk}])

\* daily.delete_room: a missing room counts as deleted, another failure is
\* not caught by the handler
DeleteRoom(p, gw_fails) ==
    /\ pc[p] = "droom"
    /\ UNCHANGED <<clock, workshops, participants, rules, messages>>
    /\ LET wk == CHOOSE x \in loc[p].ws : TRUE
       IN  IF gw_fails
           THEN /\ rooms' = rooms
                /\ Finish(p, HTTPException(Me(p), 500, "Internal Server Error"))
           ELSE /\ rooms' = rooms \ {wk.video_room_id}
                /\ Goto(p, "dparticipants", loc[p])

\* select the membership rows of the workshop and mark them for deletion
DeleteSelectParticipants(p) ==
    /\ pc[p] = "dparticipants"
    /\ UNCHANGED <<clock, workshops, participants, rules, rooms, messages>>
    /\ Goto(p, "drules",
            [loc[p] EXCEPT !.del_participants =
                {r.id : r \in {x \in participants :
                                  x.workshop_id = loc[p].workshop_id}}])

\* select the rules rows of the workshop and mark them for deletion
DeleteSelectRules(p) ==
    /\ pc[p] = "drules"
    /\ UNCHANGED <<clock, workshops, participants, rules, rooms, messages>>
    /\ Goto(p, "dcommit",
            [loc[p] EXCEPT !.del_rules =
                {r.id : r \in {x \in rules :
                                  x.workshop_id = loc[p].workshop_id}}])

\* the rows that still refer to workshop w when the marked ones are deleted
StillReferring(w, del_participants, del_rules) ==
    {r \in participants : r.workshop_id = w /\ r.id \notin del_participants}
        \cup {r \in rules : r.workshop_id = w /\ r.id \notin del_rules}

\* session.commit(): the marked rows and the workshop are deleted together,
\* unless a foreign key still refers to the workshop or the workshop is gone
DeleteCommit(p) ==
    /\ pc[p] = "dcommit"
    /\ UNCHANGED <<clock, rooms, messages>>
    /\ LET w == loc[p].workshop_id
       IN  IF \/ WorkshopGet(w) = {}
              \/ StillReferring(w, loc[p].del_participants, loc[p].del_rules) # {}
           THEN /\ UNCHANGED <<workshops, participants, rules>>
                /\ Finish(p, HTTPException(Me(p), 500, "Internal Server Error"))
           ELSE /\ participants' =
                       {r \in participants : r.id \notin loc[p].del_participants}
                /\ rules' = {r \in rules : r.id \notin loc[p].del_rules}
                /\ workshops' = {x \in workshops : x.id # w}
                /\ Finish(p, [Me(p) EXCEPT !.status = 204])

DeleteStep(p, gw_fails) ==
    \/ DeleteRoom(p, gw_fails)
    \/ DeleteSelectParticipants(p)
    \/ DeleteSelectRules(p)
    \/ DeleteCommit(p)

------------------------------------------------------------------------------
(* The clock and the request slots *)

Tick ==
    /\ clock < MaxClock
    /\ clock' = clock + 1
    /\ UNCHANGED <<workshops, participants, rules, rooms, messages, pc, loc, resp>>

\* the slot takes the next request
Recycle(p) ==
    /\ pc[p] = "done"
    /\ pc' = [pc EXCEPT ![p] = "idle"]
    /\ UNCHANGED <<clock, workshops, participants, rules, rooms, messages, loc, resp>>

------------------------------------------------------------------------------
(* Initial states *)

Workshop(st, d, n, room) ==
    [id |-> TheWorkshop, trainer_id |-> TheTrainer, start_time |-> st,
     duration_minutes |-> d, max_participants |-> n, video_room_id |-> room]

InitSlots ==
    /\ pc = [p \in Procs |-> "idle"]
    /\ loc = [p \in Procs |-> NoLoc]
    /\ resp = [p \in Procs |-> NoResp]

InitEmpty ==
    /\ participants = {}
    /\ rooms = {}
    /\ messages = <<>>
    /\ InitSlots

------------------------------------------------------------------------------
(* Concurrent requests: NumConc requests, joins of the trainer and of other  *)
(* users and capacity updates by the trainer, interleaved at every await, on *)
(* a workshop as create_workshop leaves it, open for admission.              *)

CapacityBodies == {{<<"max_participants", n>>} : n \in 1 .. MaxCap}

Init ==
    /\ clock = MaxClock - 1
    /\ \E n \in 1 .. MaxCap : workshops = {Workshop(0, 1, n, None)}
    /\ rules = {DefaultRules(1, TheWorkshop)}
    /\ InitEmpty

Next ==
    \/ Tick
    \/ \E p \in ConcProcs :
          \/ \E u \in ConcUsers, w \in WorkshopIds : JoinStart(p, u, w)
          \/ \E f \in BOOLEAN : JoinStep(p, f)
          \/ \E b \in CapacityBodies : UpdateStart(p, TheTrainer, TheWorkshop, b)
          \/ UpdateCommit(p)

Spec == Init /\ [][Next]_vars

------------------------------------------------------------------------------
(* Joins around the bounds of the admission window: one request at a time,   *)
(* by the trainer or another user, while the clock advances; the workshop    *)
(* starts before, at or after the clock's origin.                            *)

TimeUsers == {TheTrainer, TheTrainer + 1}

InitTime ==
    /\ clock = 0
    /\ \E st \in StartTimes, d \in Durations :
          workshops = {Workshop(st, d, MaxCap, None)}
    /\ rules = {DefaultRules(1, TheWorkshop)}
    /\ InitEmpty

NextTime ==
    \/ Tick
    \/ \E u \in TimeUsers, w \in WorkshopIds : JoinStart(1, u, w)
    \/ \E f \in BOOLEAN : JoinStep(1, f)
    \/ Recycle(1)

SpecTime == InitTime /\ [][NextTime]_vars

------------------------------------------------------------------------------
(* Filling a workshop: distinct users join one after another, slot p taking  *)
(* the p-th request, with the gateway answering every call.                  *)

FillStart(p) ==
    /\ \A q \in Procs : q < p => pc[q] = "done"
    /\ \E u \in Users :
          /\ \A q \in Procs : q < p => resp[q].user_id # u
          /\ JoinStart(p, u, TheWorkshop)

InitFill ==
    /\ clock = 0
    /\ \E n \in 1 .. MaxCap : workshops = {Workshop(0, 1, n, None)}
    /\ rules = {DefaultRules(1, TheWorkshop)}
    /\ InitEmpty

NextFill ==
    \/ Tick
    \/ \E p \in Users :
          \/ FillStart(p)
          \/ JoinStep(p, FALSE)

SpecFill == InitFill /\ [][NextFill]_vars

------------------------------------------------------------------------------
(* Host actions and joins, one request at a time, on a workshop whose stored *)
(* rules are any row of the table, or none.                                  *)

SeqUsers == {TheTrainer, TheTrainer + 1}

StoredRules ==
    {[DefaultRules(1, TheWorkshop) EXCEPT
         !.force_camera_on = fc, !.force_mic_muted_on_join = fm,
         !.allow_unmute_after = au, !.allow_camera_toggle = ct] :
     fc \in BOOLEAN, fm \in BOOLEAN, au \in {0, 30}, ct \in BOOLEAN}

InitSeq ==
    /\ clock = 0
    /\ workshops = {Workshop(0, 1, MaxCap, None)}
    /\ \/ rules = {}
       \/ \E r \in StoredRules : rules = {r}
    /\ InitEmpty

NextSeq ==
    \/ \E u \in SeqUsers, w \in WorkshopIds, a \in HostActionType :
          HostStart(1, u, w, a)
    \/ \E f \in BOOLEAN : HostStep(1, f)
    \/ \E u \in SeqUsers : JoinStart(1, u, TheWorkshop)
    \/ \E f \in BOOLEAN : JoinStep(1, f)
    \/ Recycle(1)

SpecSeq == InitSeq /\ [][NextSeq]_vars

------------------------------------------------------------------------------
(* Reading the rules: a join in slot 1 and a standalone rules query in slot   *)
(* 2, on stored rules that are any row, live flags included, or none.        *)

LiveRules ==
    {[r EXCEPT !.all_muted = am, !.all_cameras_off = ac] :
     r \in StoredRules, am \in BOOLEAN, ac \in BOOLEAN}

InitRules ==
    /\ clock = 0
    /\ workshops = {Workshop(0, 1, MaxCap, None)}
    /\ \/ rules = {}
       \/ \E r \in LiveRules : rules = {r}
    /\ InitEmpty

NextRules ==
    \/ \E u \in SeqUsers : JoinStart(1, u, TheWorkshop)
    \/ \E f \in BOOLEAN : JoinStep(1, f)
    \/ \E u \in SeqUsers, w \in WorkshopIds : GetStart(2, u, w)
    \/ GetSelect(2)

SpecRules == InitRules /\ [][NextRules]_vars

------------------------------------------------------------------------------
(* The rows of a workshop: NumConc concurrent requests that create           *)
(* workshops, perform host actions and delete workshops, on a workshop that  *)
(* nobody joined yet or that its trainer joined, with a rules row or none.   *)

InitRows ==
    /\ clock = 0
    /\ \/ /\ workshops = {Workshop(0, 1, MaxCap, None)}
          /\ participants = {}
          /\ rooms = {}
       \/ /\ workshops = {Workshop(0, 1, MaxCap, RoomName(TheWorkshop))}
          /\ participants = {[id |-> 1, user_id |-> TheTrainer,
                              workshop_id |-> TheWorkshop, role |-> HOST,
                              joined_at |-> 0]}
          /\ rooms = {RoomName(TheWorkshop)}
    /\ \/ rules = {}
       \/ \E am \in BOOLEAN :
             rules = {[DefaultRules(1, TheWorkshop) EXCEPT !.all_muted = am]}
    /\ messages = <<>>
    /\ InitSlots

NextRows ==
    \E p \in ConcProcs :
        \/ \E u \in SeqUsers : CreateStart(p, u, MaxCap)
        \/ CreateFlush(p)
        \/ CreateCommit(p)
        \/ \E u \in SeqUsers, w \in WorkshopIds, a \in HostActionType :
              HostStart(p, u, w, a)
        \/ \E f \in BOOLEAN : HostStep(p, f)
        \/ \E u \in SeqUsers, w \in WorkshopIds : DeleteStart(p, u, w)
        \/ \E f \in BOOLEAN : DeleteStep(p, f)

SpecRows == InitRows /\ [][NextRows]_vars

------------------------------------------------------------------------------
(* Roles: joins, re-joins and workshop updates, one request at a time; every *)
(* update request also names another user as the trainer.                    *)

RoleBodies ==
    {{<<"trainer_id", TheTrainer + 1>>, <<"max_participants", n>>} :
     n \in 1 .. MaxCap}

InitRole ==
    /\ clock = 0
    /\ workshops = {Workshop(0, 1, MaxCap, None)}
    /\ rules = {DefaultRules(1, TheWorkshop)}
    /\ InitEmpty

NextRole ==
    \/ \E u \in Users : JoinStart(1, u, TheWorkshop)
    \/ \E f \in BOOLEAN : JoinStep(1, f)
    \/ \E u \in SeqUsers, b \in RoleBodies : UpdateStart(1, u, TheWorkshop, b)
    \/ UpdateCommit(1)
    \/ Recycle(1)

SpecRole == InitRole /\ [][NextRole]_vars

------------------------------------------------------------------------------
(* The order of a join's steps: one request at a time on a workshop with one *)
(* place, which fills and whose window closes while the clock advances.      *)

InitOrder ==
    /\ clock = 0
    /\ \E st \in StartTimes, d \in Durations :
          workshops = {Workshop(st, d, 1, None)}
    /\ rules = {DefaultRules(1, TheWorkshop)}
    /\ InitEmpty

NextOrder ==
    \/ Tick
    \/ \E u \in ConcUsers, w \in WorkshopIds : JoinStart(1, u, w)
    \/ \E f \in BOOLEAN : JoinStep(1, f)
    \/ Recycle(1)

SpecOrder == InitOrder /\ [][NextOrder]_vars

------------------------------------------------------------------------------
(* Two runs side by side: two workshops that are equal in everything but the *)
(* stored late_join_behavior and allow_unmute_after, empty or full, at any   *)
(* minute around the window; slot 1 joins the first, slot 2 the second.      *)

TheOther == TheWorkshop + 1

\* the one place of workshop w is taken, or nobody joined yet
Members(w, taken) ==
    IF taken
    THEN {[id |-> w, user_id |-> TheTrainer + 2, workshop_id |-> w,
           role |-> PARTICIPANT, joined_at |-> 0]}
    ELSE {}

InitPair ==
    /\ clock \in 0 .. MaxClock
    /\ \E st \in StartTimes :
          workshops = {Workshop(st, 1, 1, None),
                       [Workshop(st, 1, 1, None) EXCEPT !.id = TheOther]}
    /\ \E taken \in BOOLEAN :
          participants = Members(TheWorkshop, taken) \cup Members(TheOther, taken)
    /\ \E am \in BOOLEAN, ac \in BOOLEAN,
          ljb \in LateJoinBehavior, au \in {0, 30} :
          rules = {[DefaultRules(1, TheWorkshop) EXCEPT
                       !.all_muted = am, !.all_cameras_off = ac],
                   [DefaultRules(2, TheOther) EXCEPT
                       !.all_muted = am, !.all_cameras_off = ac,
                       !.late_join_behavior = ljb, !.allow_unmute_after = au]}
    /\ rooms = {}
    /\ messages = <<>>
    /\ InitSlots

NextPair ==
    \/ \E u \in SeqUsers : JoinStart(1, u, TheWorkshop)
    \/ \E u \in SeqUsers : JoinStart(2, u, TheOther)
    \/ \E p \in {1, 2}, f \in BOOLEAN : JoinStep(p, f)

SpecPair == InitPair /\ [][NextPair]_vars

------------------------------------------------------------------------------
(* Claims checked under Spec: concurrent requests *)



\* C1: in every reachable state the number of membership rows with role
\* 'participant' of a workshop does not exceed the workshop's max_participants,
\* under any interleaving of join and update_workshop requests.
C1_NeverOverbooked ==
    \A wk \in workshops : ParticipantCount(wk.id) <= wk.max_participants

\* C2: in every reachable state there is at most one membership row per
\* (user, workshop) pair, also when the same user joins twice concurrently.
C2_OneRowPerUser ==
    \A r1, r2 \in participants :
        (r1.user_id = r2.user_id /\ r1.workshop_id = r2.workshop_id) => r1 = r2

\* C3: video_room_id only ever changes from unset to 'kalba-' followed by the
\* workshop id; once set, no join (not even a concurrent first-joiner that
\* persists it again) and no update changes it to another value.
C3_RoomIdSetOnce ==
    [][\A wk \in workshops :
          \A wk2 \in workshops' :
              (wk2.id = wk.id /\ wk2.video_room_id # wk.video_room_id)
                  => /\ wk.video_room_id = None
                     /\ wk2.video_room_id = "kalba-" \o ToString(wk.id)]_vars

\* C3's case: the room id is persisted while another first-joiner, which
\* loaded the workshop without one, is about to persist it as well
C3_Witness ==
    \E wk \in workshops, p \in Procs :
        /\ wk.video_room_id = "kalba-" \o ToString(wk.id)
        /\ pc[p] = "persist"
        /\ \E x \in loc[p].ws : x.video_room_id = None

------------------------------------------------------------------------------
(* Claim checked under SpecTime: the admission window *)

\* the request that slot p starts in this step, when it starts one
Starts(p) == pc[p] = "idle" /\ pc'[p] # "idle"
StartedOp(p) == IF pc'[p] = "done" THEN resp'[p].op ELSE loc'[p].op
StartedUser(p) == IF pc'[p] = "done" THEN resp'[p].user_id ELSE loc'[p].user_id
StartedWorkshop(p) ==
    IF pc'[p] = "done" THEN resp'[p].workshop_id ELSE loc'[p].workshop_id

\* slot p's request ends in this step with 403 and the given detail, and the
\* step creates no membership row, no room and no token
RejectedUntouched(p, text) ==
    /\ pc'[p] = "done"
    /\ resp'[p].status = 403
    /\ resp'[p].detail = text
    /\ resp'[p].token = NoToken
    /\ UNCHANGED <<participants, rooms, workshops, rules, messages>>

\* C4: a join, by the trainer or by anyone else, is rejected with 403 'has not
\* started yet' when now < start_time - 5 and with 403 'has ended' when
\* now > start_time + duration_minutes + 10, before any row, room or token is
\* created; at exactly either bound the time check does not reject it.
C4_TimeWindow ==
    [][\A p \in Procs :
          (Starts(p) /\ StartedOp(p) = "join") =>
              \A wk \in workshops :
                  wk.id = StartedWorkshop(p) =>
                      /\ clock < wk.start_time - 5 =>
                             RejectedUntouched(p, "Workshop has not started yet")
                      /\ clock > wk.start_time + wk.duration_minutes + 10 =>
                             RejectedUntouched(p, "Workshop has ended")
                      /\ (\/ clock = wk.start_time - 5
                          \/ clock = wk.start_time + wk.duration_minutes + 10)
                             => pc'[p] # "done"]_vars

\* C4's case: a user joined at exactly the late bound and got a membership
\* row, and the trainer, joining after the bound, was told the workshop ended
C4_Witness ==
    \E p \in Procs, wk \in workshops, r \in participants :
        /\ pc[p] = "done"
        /\ resp[p].op = "join"
        /\ resp[p].user_id = wk.trainer_id
        /\ resp[p].status = 403
        /\ resp[p].detail = "Workshop has ended"
        /\ r.user_id # wk.trainer_id
        /\ r.joined_at = wk.start_time + wk.duration_minutes + 10

------------------------------------------------------------------------------
(* Claims checked under SpecFill: filling a workshop *)

\* the other users' join requests answered before slot p's
EarlierParticipantJoins(p, wk) ==
    {q \in Procs : q < p /\ pc[q] = "done" /\ resp[q].user_id # wk.trainer_id}

MembershipRows(u, w) ==
    {r \in participants : r.user_id = u /\ r.workshop_id = w}

\* C5: when distinct non-trainer users join a workshop with max_participants
\* = N one after another, the first N are answered 200 with role 'participant'
\* and every further one 403 'Workshop is full', without a membership row.
C5_FirstNThenFull ==
    \A wk \in workshops :
        \A p \in Procs :
            (pc[p] = "done" /\ resp[p].op = "join"
                 /\ resp[p].user_id # wk.trainer_id) =>
                IF Cardinality(EarlierParticipantJoins(p, wk)) < wk.max_participants
                THEN /\ resp[p].status = 200
                     /\ resp[p].role = "participant"
                     /\ \E r \in MembershipRows(resp[p].user_id, wk.id) :
                            r.role = "participant"
                ELSE /\ resp[p].status = 403
                     /\ resp[p].detail = "Workshop is full"
                     /\ MembershipRows(resp[p].user_id, wk.id) = {}

\* C5's case: N = 2, two users were admitted and a third was turned away
C5_Witness ==
    \E wk \in workshops, p \in Procs :
        /\ wk.max_participants = 2
        /\ pc[p] = "done"
        /\ resp[p].detail = "Workshop is full"
        /\ Cardinality(EarlierParticipantJoins(p, wk)) = 2
        /\ Cardinality({r \in participants : r.role = "participant"}) = 2

\* C6: the trainer's join in the window is never rejected for capacity: it is
\* answered 200 with role 'host' whatever the number of participant rows, and
\* the host's row is not counted: a participant is only turned away as 'full'
\* when the rows of users other than the trainer number max_participants.
C6_HostExempt ==
    \A wk \in workshops :
        \A p \in Procs :
            /\ (pc[p] = "done" /\ resp[p].op = "join"
                    /\ resp[p].user_id = wk.trainer_id)
                   => (resp[p].status = 200 /\ resp[p].role = "host")
            /\ (pc[p] = "done" /\ resp[p].detail = "Workshop is full")
                   => Cardinality({r \in participants :
                                      /\ r.workshop_id = wk.id
                                      /\ r.user_id # wk.trainer_id})
                          >= wk.max_participants
            /\ pc[p] = "count" => loc[p].user_id # wk.trainer_id

\* C6's case: the workshop was full, a user had been turned away, and the
\* trainer joining after that was admitted as host
C6_Witness ==
    \E wk \in workshops, p, q \in Procs :
        /\ q < p
        /\ pc[q] = "done" /\ resp[q].detail = "Workshop is full"
        /\ pc[p] = "done" /\ resp[p].user_id = wk.trainer_id
        /\ resp[p].status = 200 /\ resp[p].role = "host"
        /\ Cardinality({r \in participants : r.role = "participant"})
               >= wk.max_participants

------------------------------------------------------------------------------
(* Claims checked under SpecSeq: host actions and joins, one at a time *)

\* the stored rules of workshop w, or the defaults of a missing row
StoredOrDefault(w) ==
    IF \E r \in rules : r.workshop_id = w
    THEN CHOOSE r \in rules : r.workshop_id = w
    ELSE [id |-> 0, workshop_id |-> w,
          force_camera_on |-> TRUE, force_mic_muted_on_join |-> TRUE,
          allow_unmute_after |-> 0, allow_camera_toggle |-> TRUE,
          late_join_behavior |-> "allow_muted",
          all_muted |-> FALSE, all_cameras_off |-> FALSE]

\* C7: a host action by anyone but the workshop's trainer is rejected with
\* 403, leaves the rules table as it is and sends no broadcast; only the
\* trainer's host action is ever accepted.
C7_OnlyTrainerActs ==
    [][\A p \in Procs :
          /\ (Starts(p) /\ StartedOp(p) = "host_action") =>
                 \A wk \in workshops :
                     (wk.id = StartedWorkshop(p)
                          /\ StartedUser(p) # wk.trainer_id) =>
                         /\ pc'[p] = "done"
                         /\ resp'[p].status = 403
                         /\ rules' = rules
                         /\ messages' = messages
          /\ (resp'[p].op = "host_action" /\ resp'[p].status = 200) =>
                 \E wk \in workshops :
                     /\ wk.id = resp'[p].workshop_id
                     /\ wk.trainer_id = resp'[p].user_id]_vars

\* C7's case: another user's UNMUTE_ALL was rejected while the trainer's
\* earlier MUTE_ALL stays in force
C7_Witness ==
    \E p \in Procs, wk \in workshops, r \in rules :
        /\ pc[p] = "done"
        /\ resp[p].op = "host_action"
        /\ resp[p].action = "unmute_all"
        /\ resp[p].user_id # wk.trainer_id
        /\ resp[p].status = 403
        /\ r.all_muted

\* C8: committing a host action sets the action's flag to its target value
\* (MUTE_ALL: all_muted true, UNMUTE_ALL: false, CAMERAS_OFF_ALL:
\* all_cameras_off true, CAMERAS_ON_ALL: false) from every stored state, leaves
\* the other live flag and the static fields as they were, and changes nothing
\* when the same action was the one accepted just before.
C8_TransitionTable ==
    [][\A p \in Procs :
          (pc[p] = "hcommit" /\ pc'[p] # "hcommit") =>
              LET a == loc[p].action
                  w == loc[p].workshop_id
                  before == StoredOrDefault(w)
                  after == {r \in rules' : r.workshop_id = w}
              IN  /\ Cardinality(after) = 1
                  /\ \A r \in after :
                        /\ r.all_muted =
                               (IF a = "mute_all" THEN TRUE
                                ELSE IF a = "unmute_all" THEN FALSE
                                ELSE before.all_muted)
                        /\ r.all_cameras_off =
                               (IF a = "cameras_off_all" THEN TRUE
                                ELSE IF a = "cameras_on_all" THEN FALSE
                                ELSE before.all_cameras_off)
                        /\ r.force_camera_on = before.force_camera_on
                        /\ r.force_mic_muted_on_join = before.force_mic_muted_on_join
                        /\ r.allow_unmute_after = before.allow_unmute_after
                        /\ r.allow_camera_toggle = before.allow_camera_toggle
                  /\ (resp[p].op = "host_action" /\ resp[p].status = 200
                          /\ resp[p].action = a)
                         => rules' = rules]_vars

\* C8's case: MUTE_ALL was committed and broadcast twice in a row, on rules
\* whose static fields are not the defaults, and all_muted is stored as true
C8_Witness ==
    \E p \in Procs, r \in rules :
        /\ Len(messages) = 2
        /\ messages[1][2] = "mute_all"
        /\ messages[2][2] = "mute_all"
        /\ pc[p] = "done"
        /\ resp[p].op = "host_action"
        /\ resp[p].status = 200
        /\ resp[p].action = "mute_all"
        /\ r.all_muted
        /\ ~r.force_camera_on
        /\ r.allow_unmute_after # 0

\* the flag of action a has a's target value in row r
FlagAtTarget(r, a) ==
    /\ a = "mute_all" => r.all_muted
    /\ a = "unmute_all" => ~r.all_muted
    /\ a = "cameras_off_all" => r.all_cameras_off
    /\ a = "cameras_on_all" => ~r.all_cameras_off

\* C9: when a host action reaches its broadcast the rules row is already
\* committed with the new flag; the broadcast step always answers 'accepted',
\* leaves the rules table as committed, and reports broadcast_sent = true
\* exactly when the gateway took the message.
C9_CommitBeforeBroadcast ==
    [][\A p \in Procs :
          /\ pc'[p] = "hbroadcast" =>
                 \E r \in rules' :
                     /\ r.workshop_id = loc'[p].workshop_id
                     /\ FlagAtTarget(r, loc'[p].action)
          /\ (pc[p] = "hbroadcast" /\ pc'[p] # "hbroadcast") =>
                 /\ pc'[p] = "done"
                 /\ resp'[p].status = 200
                 /\ resp'[p].detail = "accepted"
                 /\ rules' = rules
                 /\ \E r \in rules' :
                        /\ r.workshop_id = loc[p].workshop_id
                        /\ FlagAtTarget(r, loc[p].action)
                 /\ resp'[p].broadcast_sent = (messages' # messages)
                 /\ messages' # messages =>
                        /\ Len(messages') = Len(messages) + 1
                        /\ messages'[Len(messages')][2] = loc[p].action
          /\ (pc[p] = "hcommit" /\ pc'[p] = "done" /\ resp'[p].status = 200) =>
                 /\ ~resp'[p].broadcast_sent
                 /\ messages' = messages]_vars

\* C9's case: the workshop has a room, the broadcast of MUTE_ALL failed, the
\* answer is 'accepted' with broadcast_sent = false and all_muted is stored
C9_Witness ==
    \E p \in Procs, wk \in workshops, r \in rules :
        /\ wk.video_room_id # None
        /\ pc[p] = "done"
        /\ resp[p].op = "host_action"
        /\ resp[p].action = "mute_all"
        /\ resp[p].status = 200
        /\ resp[p].detail = "accepted"
        /\ ~resp[p].broadcast_sent
        /\ messages = <<>>
        /\ r.all_muted

\* C10: the token of a successful join has start_video_off = NOT
\* (force_camera_on AND NOT all_cameras_off) and start_audio_off =
\* (force_mic_muted_on_join OR all_muted) of the stored rules, or of the
\* defaults when no row is stored.
C10_TokenFlags ==
    \A p \in Procs :
        (pc[p] = "done" /\ resp[p].op = "join" /\ resp[p].status = 200) =>
            LET r == StoredOrDefault(resp[p].workshop_id)
            IN  /\ resp[p].token.start_video_off =
                       ~(r.force_camera_on /\ ~r.all_cameras_off)
                /\ resp[p].token.start_audio_off =
                       (r.force_mic_muted_on_join \/ r.all_muted)

\* C10's case: after CAMERAS_OFF_ALL a participant's token starts with video
\* off although force_camera_on is stored as true
C10_Witness ==
    \E p \in Procs, wk \in workshops, r \in rules :
        /\ pc[p] = "done"
        /\ resp[p].op = "join"
        /\ resp[p].status = 200
        /\ resp[p].user_id # wk.trainer_id
        /\ r.force_camera_on
        /\ r.all_cameras_off
        /\ resp[p].token.start_video_off
        /\ Len(messages) > 0
        /\ messages[Len(messages)][2] = "cameras_off_all"

------------------------------------------------------------------------------
(* Claim checked under SpecRules: the two readers of the rules *)

\* C11: for the same stored rules (any row, or none) the rules object of a
\* successful join and the one of the standalone rules query are equal field
\* for field; without a row both are force_camera_on = true,
\* force_mic_muted_on_join = true, allow_unmute_after = 0, allow_camera_toggle
\* = true, all_muted = false, all_cameras_off = false.
C11_SameRulesView ==
    \A p, q \in Procs :
        (/\ pc[p] = "done" /\ resp[p].op = "join" /\ resp[p].status = 200
         /\ pc[q] = "done" /\ resp[q].op = "get_rules" /\ resp[q].status = 200
         /\ resp[p].workshop_id = resp[q].workshop_id) =>
            /\ resp[p].rules = resp[q].rules
            /\ (\A r \in rules : r.workshop_id # resp[p].workshop_id) =>
                   resp[q].rules =
                       [force_camera_on |-> TRUE, force_mic_muted_on_join |-> TRUE,
                        allow_unmute_after |-> 0, allow_camera_toggle |-> TRUE,
                        all_muted |-> FALSE, all_cameras_off |-> FALSE]
            /\ \A r \in rules :
                   r.workshop_id = resp[p].workshop_id =>
                       /\ resp[q].rules.all_muted = r.all_muted
                       /\ resp[q].rules.all_cameras_off = r.all_cameras_off
                       /\ resp[q].rules.allow_unmute_after = r.allow_unmute_after

\* C11's case: a join and a rules query were both answered on a stored row
\* whose fields are all different from the defaults
C11_Witness ==
    \E p, q \in Procs, r \in rules :
        /\ pc[p] = "done" /\ resp[p].op = "join" /\ resp[p].status = 200
        /\ pc[q] = "done" /\ resp[q].op = "get_rules" /\ resp[q].status = 200
        /\ ~r.force_camera_on /\ ~r.force_mic_muted_on_join
        /\ r.allow_unmute_after = 30 /\ ~r.allow_camera_toggle
        /\ r.all_muted /\ r.all_cameras_off
        /\ resp[q].rules.all_muted /\ resp[q].rules.allow_unmute_after = 30

------------------------------------------------------------------------------
(* Claims checked under Spec: the gateway's answers *)

\* C12: a join whose create_room is answered 'already exists' goes on as if
\* the room had been created, with the deterministic room name, so a join
\* ends with 502 only after an answer other than that to create_room or after
\* a failed create_meeting_token; such a join carries no token, and no join
\* makes either gateway call more than once.
C12_AlreadyExistsIsSuccess ==
    \A p \in Procs :
        /\ (pc[p] = "done" /\ resp[p].op = "join" /\ resp[p].status = 502) =>
               /\ resp[p].token = NoToken
               /\ resp[p].calls # <<>>
               /\ resp[p].calls[Len(resp[p].calls)][2] \notin {"ok", "already exists"}
               /\ \A i \in 1 .. (Len(resp[p].calls) - 1) :
                      resp[p].calls[i][2] \in {"ok", "already exists"}
        /\ (pc[p] = "done" /\ resp[p].op = "join" /\ resp[p].status = 200) =>
               /\ resp[p].calls[1][1] = "create_room"
               /\ resp[p].calls[1][2] \in {"ok", "already exists"}
               /\ resp[p].calls[2] = <<"create_meeting_token", "ok">>
               /\ resp[p].token.room_name = "kalba-" \o ToString(resp[p].workshop_id)
        /\ \A i, j \in DOMAIN resp[p].calls :
               resp[p].calls[i][1] = resp[p].calls[j][1] => i = j
        /\ \A i, j \in DOMAIN loc[p].calls :
               loc[p].calls[i][1] = loc[p].calls[j][1] => i = j
        /\ (pc[p] \in {"persist", "rules", "token"}) =>
               /\ Len(loc[p].calls) = 1
               /\ loc[p].calls[1][1] = "create_room"
               /\ loc[p].calls[1][2] \in {"ok", "already exists"}
               /\ loc[p].room_name = "kalba-" \o ToString(loc[p].workshop_id)

\* C12's case: two first-joiners, both having loaded the workshop without a
\* room; one created the room, the other was told that it already exists, and
\* both go on to persist the room name
C12_Witness ==
    \E p, q \in Procs :
        /\ pc[p] = "persist" /\ pc[q] = "persist"
        /\ loc[p].calls = << <<"create_room", "ok">> >>
        /\ loc[q].calls = << <<"create_room", "already exists">> >>
        /\ loc[p].room_name = loc[q].room_name
        /\ \A wk \in workshops : wk.video_room_id = None

------------------------------------------------------------------------------
(* Claims checked under SpecRows: the rows of a workshop *)

\* C13: in every reachable state there is at most one rules row per workshop,
\* under any interleaving of create_workshop, host_action and delete_workshop,
\* also when two host actions both read 'no row' before either commits.
C13_OneRulesRow ==
    \A r1, r2 \in rules : r1.workshop_id = r2.workshop_id => r1 = r2

\* C13's case: two host actions read 'no row'; one inserted the row, the
\* other's insert was refused and one row is stored; and a created workshop
\* has its default row
C13_Witness ==
    \E p, q \in Procs :
        /\ pc[p] = "done" /\ resp[p].op = "host_action" /\ resp[p].status = 200
        /\ pc[q] = "done" /\ resp[q].op = "host_action" /\ resp[q].status = 500
        /\ resp[p].workshop_id = resp[q].workshop_id
        /\ Cardinality({r \in rules : r.workshop_id = resp[p].workshop_id}) = 1

\* C14: when host actions with opposite effect on a flag overlap, each one
\* having read the rules row before the other commits, the stored flag after
\* both equals the target of the one that committed last: every commit of a
\* host action leaves the stored flag at that action's target value.
C14_LastCommitWins ==
    [][\A p \in Procs :
          (/\ pc[p] = "hcommit"
           /\ pc'[p] # "hcommit"
           /\ ~(pc'[p] = "done" /\ resp'[p].status = 500)) =>
              \A r \in rules' :
                  r.workshop_id = loc[p].workshop_id =>
                      FlagAtTarget(r, loc[p].action)]_vars

------------------------------------------------------------------------------
(* Claim checked under SpecTime: joining again *)

\* C15: when a user who joined a workshop joins it again and is admitted, the
\* second join inserts no row: afterwards exactly one membership row exists
\* for that (user, workshop), with the role it had and with joined_at equal
\* to the timestamp of the later join.
C15_RejoinUpdates ==
    [][\A p \in Procs :
          (pc[p] = "upsert" /\ pc'[p] # "upsert") =>
              LET u == loc[p].user_id
                  w == loc[p].workshop_id
                  before == {r \in participants :
                                r.user_id = u /\ r.workshop_id = w}
                  after == {r \in participants' :
                               r.user_id = u /\ r.workshop_id = w}
              IN  before # {} =>
                      /\ Cardinality(participants') = Cardinality(participants)
                      /\ Cardinality(after) = 1
                      /\ \A r \in before : \A r2 \in after :
                             /\ r2.id = r.id
                             /\ r2.role = r.role
                             /\ r2.joined_at = loc[p].now
                             /\ r2.joined_at >= r.joined_at]_vars

\* C15's case: a participant whose first join was answered 200 joined again
\* at a later minute; the second join has committed and the one row carries
\* the later timestamp
C15_Witness ==
    \E p \in Procs, r \in participants :
        /\ pc[p] = "room"
        /\ resp[p].op = "join" /\ resp[p].status = 200
        /\ resp[p].user_id = loc[p].user_id
        /\ loc[p].existing = r.id
        /\ r.role = "participant"
        /\ r.joined_at = loc[p].now
        /\ loc[p].now > 0
        /\ Cardinality(participants) = 1

------------------------------------------------------------------------------
(* Claim checked under SpecRole: roles *)

\* C16: in every reachable state a membership row has role 'host' if and only
\* if its user is the workshop's trainer, and a successful join answers role
\* 'host' with an owner token exactly when the caller is the trainer, else
\* role 'participant' without owner rights; no sequence of joins, re-joins
\* and workshop updates breaks this.
C16_RoleFromOwnership ==
    \A wk \in workshops :
        /\ \A r \in participants :
               r.workshop_id = wk.id =>
                   (r.role = "host") = (r.user_id = wk.trainer_id)
        /\ \A r \in participants : r.role \in {"host", "participant"}
        /\ \A p \in Procs :
               (pc[p] = "done" /\ resp[p].op = "join" /\ resp[p].status = 200
                    /\ resp[p].workshop_id = wk.id) =>
                   IF resp[p].user_id = wk.trainer_id
                   THEN resp[p].role = "host" /\ resp[p].token.is_owner
                   ELSE resp[p].role = "participant" /\ ~resp[p].token.is_owner

\* C16's case: the trainer and another user hold rows, an update that named
\* the other user as trainer has lowered max_participants, the trainer is
\* still the trainer and the trainer's join was answered as host's
C16_Witness ==
    \E wk \in workshops, r1, r2 \in participants, p \in Procs :
        /\ wk.max_participants < MaxCap
        /\ r1.user_id = wk.trainer_id /\ r1.role = "host"
        /\ r2.user_id # wk.trainer_id /\ r2.role = "participant"
        /\ wk.trainer_id = TheTrainer
        /\ pc[p] = "done" /\ resp[p].op = "join" /\ resp[p].status = 200
        /\ resp[p].user_id = wk.trainer_id
        /\ resp[p].token.is_owner

------------------------------------------------------------------------------
(* Claim checked under SpecOrder: the order of a join's steps *)

\* the position of a join's step in the handler
StepRank(label) ==
    CASE label = "idle" -> 0
      [] label = "count" -> 1
      [] label = "select" -> 2
      [] label = "upsert" -> 3
      [] label = "room" -> 4
      [] label = "persist" -> 5
      [] label = "rules" -> 6
      [] label = "token" -> 7
      [] OTHER -> 8

\* C17: a join runs workshop lookup, time-window check, capacity check,
\* membership commit, room provisioning, rules read and token request in this
\* order: a missing workshop is answered 404 before anything else, a full
\* workshop outside its window is answered with the time-window 403 and not
\* with 'full', and when the token is requested the caller's membership row
\* is committed and the workshop's video_room_id is persisted.
C17_StepOrder ==
    [][\A p \in Procs :
          /\ (pc[p] # pc'[p] /\ pc'[p] # "idle") =>
                 StepRank(pc'[p]) > StepRank(pc[p])
          /\ (Starts(p) /\ StartedOp(p) = "join") =>
                 /\ (\A wk \in workshops : wk.id # StartedWorkshop(p)) =>
                        /\ pc'[p] = "done"
                        /\ resp'[p].status = 404
                        /\ UNCHANGED <<participants, rooms, workshops, rules>>
                 /\ \A wk \in workshops :
                        (/\ wk.id = StartedWorkshop(p)
                         /\ \/ clock < wk.start_time - 5
                            \/ clock > wk.start_time + wk.duration_minutes + 10) =>
                            /\ pc'[p] = "done"
                            /\ resp'[p].status = 403
                            /\ resp'[p].detail # "Workshop is full"
                            /\ resp'[p].detail \in {"Workshop has not started yet",
                                                    "Workshop has ended"}
          /\ (pc[p] # "done" /\ pc'[p] = "done"
                  /\ resp'[p].detail = "Workshop is full") =>
                 pc[p] = "count"
          /\ (pc[p] = "token" /\ pc'[p] = "done") =>
                 /\ \E r \in participants :
                        /\ r.user_id = loc[p].user_id
                        /\ r.workshop_id = loc[p].workshop_id
                 /\ \E wk \in workshops :
                        /\ wk.id = loc[p].workshop_id
                        /\ wk.video_room_id # "None"
                        /\ wk.video_room_id = loc[p].room_name
                        /\ resp'[p].status = 200 =>
                               resp'[p].token.room_name = wk.video_room_id
                 /\ resp'[p].calls[1][1] = "create_room"]_vars

\* C17's case: the workshop's one place is taken, the window has closed, and
\* another user's join was answered 'has ended', not 'full'
C17_Witness ==
    \E p \in Procs, wk \in workshops :
        /\ pc[p] = "done" /\ resp[p].op = "join"
        /\ resp[p].status = 403 /\ resp[p].detail = "Workshop has ended"
        /\ resp[p].user_id # wk.trainer_id
        /\ resp[p].workshop_id = wk.id
        /\ wk.video_room_id # "None"
        /\ Cardinality({r \in participants :
                           r.workshop_id = wk.id /\ r.role = "participant"})
               = wk.max_participants
        /\ \A r \in participants : r.user_id # resp[p].user_id

------------------------------------------------------------------------------
(* Claims checked under SpecOrder: joins that the gateway fails *)

\* C18: a join that passed the time and capacity gates has committed the
\* caller's membership row before it calls the gateway, so a join that ends
\* with 502 leaves the row in place, without a token, and every later
\* capacity check counts the row: the check rejects exactly when the stored
\* participant rows, whatever became of their joins, number max_participants.
C18_FailedJoinKeepsRow ==
    [][\A p \in Procs :
          /\ (pc'[p] \in {"room", "persist", "rules", "token"}
                  \/ loc'[p].calls # <<>>) =>
                 \E r \in participants' :
                     /\ r.user_id = loc'[p].user_id
                     /\ r.workshop_id = loc'[p].workshop_id
          /\ (pc[p] \in {"room", "token"} /\ pc'[p] = "done"
                  /\ resp'[p].status = 502) =>
                 /\ resp'[p].token = NoToken
                 /\ participants' = participants
                 /\ \E r \in participants' :
                        /\ r.user_id = resp'[p].user_id
                        /\ r.workshop_id = resp'[p].workshop_id
          /\ (pc[p] = "count" /\ pc'[p] # "count") =>
                 \A wk \in loc[p].ws :
                     (pc'[p] = "done" /\ resp'[p].detail = "Workshop is full")
                         = (Cardinality({r \in participants :
                                            /\ r.workshop_id = wk.id
                                            /\ r.role = "participant"})
                                >= wk.max_participants)]_vars

\* C18's case: the one place of the workshop is held by the row of a user
\* whose join the gateway failed, no room was ever created and so no token
\* issued, and another user was turned away as 'full'
C18_Witness ==
    \E p \in Procs, wk \in workshops, r \in participants :
        /\ wk.max_participants = 1
        /\ rooms = {}
        /\ participants = {r}
        /\ r.role = "participant"
        /\ pc[p] = "done" /\ resp[p].op = "join"
        /\ resp[p].user_id # r.user_id
        /\ resp[p].status = 403 /\ resp[p].detail = "Workshop is full"

\* C19: the capacity check counts the caller's own row: a user other than the
\* trainer who holds a membership row of a workshop whose participant rows
\* number max_participants is answered 403 'Workshop is full' when joining
\* again inside the window, and the row's joined_at stays as it was.
C19_RejoinWhenFull ==
    [][\A p \in Procs :
          (pc[p] = "count" /\ pc'[p] # "count") =>
              \A wk \in loc[p].ws :
                  (/\ \E r \in participants :
                         /\ r.user_id = loc[p].user_id
                         /\ r.workshop_id = wk.id
                   /\ Cardinality({r \in participants :
                                      /\ r.workshop_id = wk.id
                                      /\ r.role = "participant"})
                          = wk.max_participants) =>
                      /\ pc'[p] = "done"
                      /\ resp'[p].status = 403
                      /\ resp'[p].detail = "Workshop is full"
                      /\ participants' = participants]_vars

\* C19's case: the holder of the workshop's one place joined again a minute
\* later, inside the window, was answered 'full', and the row has the
\* timestamp of the first join
C19_Witness ==
    \E p \in Procs, wk \in workshops, r \in participants :
        /\ pc[p] = "done" /\ resp[p].op = "join"
        /\ resp[p].status = 403 /\ resp[p].detail = "Workshop is full"
        /\ r.user_id = resp[p].user_id
        /\ r.workshop_id = wk.id
        /\ r.role = "participant"
        /\ participants = {r}
        /\ wk.max_participants = 1
        /\ r.joined_at < clock
        /\ clock <= wk.start_time + wk.duration_minutes + 10

------------------------------------------------------------------------------
(* Claim checked under SpecPair: two runs side by side *)

\* what is stored for workshop w, without the keys and without the two fields
StoredFor(w) ==
    [members |-> {<<r.user_id, r.role, r.joined_at>> :
                     r \in {x \in participants : x.workshop_id = w}},
     has_room |-> \E wk \in workshops : wk.id = w /\ wk.video_room_id # "None",
     flags |-> {<<r.force_camera_on, r.force_mic_muted_on_join,
                  r.allow_camera_toggle, r.all_muted, r.all_cameras_off>> :
                   r \in {x \in rules : x.workshop_id = w}}]

====
